---- MODULE Spec2Model ----
(***************************************************************************)
(* jsonpointer_flatten (src/src/lib.rs): flattening of a serde_json Value  *)
(* into a one-level object keyed by RFC 6901 JSON Pointers.                *)
(*                                                                         *)
(* A Rust String is modelled as a sequence of one-character strings, so    *)
(* that str::replace, Vec<String>::concat and format! are computed         *)
(* character by character.  A serde_json Value is a record tagged by its   *)
(* kind; a serde_json Map is the sequence of its (key, value) entries in   *)
(* iteration order.  The recursion of process is an explicit stack of      *)
(* frames.                                                                 *)
(***************************************************************************)
EXTENDS Integers, Sequences, FiniteSets

(***************************************************************************)
(* Bounds of the model.                                                    *)
(***************************************************************************)
\* Largest number of nodes of an input Value tree.
MaxNodes == 3
\* Longest string given to escape / unescape in SpecEscape.
MaxStrLen == 3

(***************************************************************************)
(* Strings.                                                                *)
(***************************************************************************)
\* The characters of the model, in the byte order Rust compares strings by.
ByteOrder == <<"/", "0", "1", "2", "3", "4", "5", "6", "7", "8", "9", "a", "~">>

Rank(c) == CHOOSE i \in DOMAIN ByteOrder : ByteOrder[i] = c

\* a < b for Rust Strings: lexicographic on bytes, a proper prefix is smaller.
RECURSIVE StrLess(_, _)
StrLess(a, b) ==
    IF b = <<>> THEN FALSE
    ELSE IF a = <<>> THEN TRUE
    ELSE IF Head(a) = Head(b) THEN StrLess(Tail(a), Tail(b))
    ELSE Rank(Head(a)) < Rank(Head(b))

IsPrefix(p, s) == Len(p) <= Len(s) /\ SubSeq(s, 1, Len(p)) = p

\* str::replace(from, to): every non-overlapping match of from, left to right.
RECURSIVE Replace(_, _, _)
Replace(s, from, to) ==
    IF s = <<>> THEN <<>>
    ELSE IF IsPrefix(from, s)
         THEN to \o Replace(SubSeq(s, Len(from) + 1, Len(s)), from, to)
         ELSE <<Head(s)>> \o Replace(Tail(s), from, to)

\* A faulty variant of escape: the two replacements in the reverse order.
escapeSlashFirst(value) == Replace(Replace(value, <<"/">>, <<"~", "1">>), <<"~">>, <<"~", "0">>)

\* A faulty variant of escape: '/' is left as it is.
escapeTildeOnly(value) == Replace(value, <<"~">>, <<"~", "0">>)

\* A faulty variant of escape: '~' is left as it is.
escapeSlashOnly(value) == Replace(value, <<"/">>, <<"~", "1">>)

escape(value) == Replace(Replace(value, <<"~">>, <<"~", "0">>), <<"/">>, <<"~", "1">>)

\* A faulty variant of unescape: the two replacements in the reverse order.
unescapeTildeFirst(value) == Replace(Replace(value, <<"~", "0">>, <<"~">>), <<"~", "1">>, <<"/">>)

unescape(value) == Replace(Replace(value, <<"~", "1">>, <<"/">>), <<"~", "0">>, <<"~">>)

\* The decimal digits of a usize, as format!("{}", idx) writes them.
RECURSIVE Decimal(_)
Decimal(n) ==
    IF n < 10 THEN <<ByteOrder[n + 2]>>
    ELSE Decimal(n \div 10) \o <<ByteOrder[(n % 10) + 2]>>

\* A faulty variant of IndexSegment: the index counts from 1.
IndexSegmentFromOne(idx) == <<"/">> \o Decimal(idx + 1)

\* format!("/{}", idx)
IndexSegment(idx) == <<"/">> \o Decimal(idx)

\* A faulty variant of KeySegment: the key is not escaped.
KeySegmentUnescaped(key) == <<"/">> \o key

\* format!("/{}", escape(key.as_str()))
KeySegment(key) == <<"/">> \o escape(key)

\* Vec<String>::concat
RECURSIVE Concat(_)
Concat(route) ==
    IF route = <<>> THEN <<>> ELSE Head(route) \o Concat(Tail(route))

\* A faulty variant of RoutePop: nothing is removed.
RouteKeep(route) == route

\* Vec::pop: removes the last element; on an empty Vec it returns None and
\* leaves the Vec empty.
RoutePop(route) ==
    IF route = <<>> THEN <<>> ELSE SubSeq(route, 1, Len(route) - 1)

(***************************************************************************)
(* serde_json::Value and serde_json::Map.                                  *)
(***************************************************************************)
Null == [kind |-> "Null"]
Bool(b) == [kind |-> "Bool", b |-> b]
Number(n) == [kind |-> "Number", n |-> n]
String(s) == [kind |-> "String", s |-> s]
\* items: the elements, in index order.
Array(items) == [kind |-> "Array", items |-> items]
\* members: the Map, a sequence of <<key, value>> in iteration order.
Object(members) == [kind |-> "Object", members |-> members]

IsScalar(v) == v.kind \in {"Null", "Bool", "Number", "String"}

\* The children of a node, in the order process iterates them.
Children(v) ==
    IF v.kind = "Array" THEN v.items
    ELSE IF v.kind = "Object" THEN [j \in DOMAIN v.members |-> v.members[j][2]]
    ELSE <<>>

MapKeys(map) == {map[j][1] : j \in DOMAIN map}

MapGet(map, key) == (CHOOSE j \in DOMAIN map : map[j][1] = key)

\* The two Map representations serde_json can be built with: BTreeMap
\* (iteration in key order) and, with preserve_order, IndexMap (iteration in
\* insertion order).
Builds == {"BTreeMap", "IndexMap"}

\* Map::insert: an existing key keeps its place and gets the new value; a
\* new key goes to its place in key order (BTreeMap) or to the end (IndexMap).
MapInsert(b, map, key, val) ==
    IF key \in MapKeys(map)
    THEN [map EXCEPT ![MapGet(map, key)] = <<key, val>>]
    ELSE IF b = "BTreeMap"
    THEN LET before == {j \in DOMAIN map : StrLess(map[j][1], key)}
             n == Cardinality(before)
         IN SubSeq(map, 1, n) \o << <<key, val>> >> \o SubSeq(map, n + 1, Len(map))
    ELSE Append(map, <<key, val>>)

\* A faulty variant of Inserted: a container is stored with its children.
InsertedWhole(v) == v

\* What process stores for a node: a clone of a scalar, json!([]) for an
\* array, json!({}) for an object.
Inserted(v) ==
    IF v.kind = "Array" THEN Array(<<>>)
    ELSE IF v.kind = "Object" THEN Object(<<>>)
    ELSE v

(***************************************************************************)
(* The inputs: every Value tree of at most MaxNodes nodes over a few       *)
(* scalars and a few keys that exercise escape.                            *)
(***************************************************************************)
Scalars == {Null, Bool(TRUE), Number(42), String(<<"a">>)}

Keys == {<<>>, <<"/">>, <<"~", "1">>}

\* The sequences of k distinct keys; in key order when the Map is a BTreeMap.
KeySeqs(b, k) ==
    {ks \in [1..k -> Keys] :
        \A i \in 1..k : \A j \in 1..k :
            i < j => IF b = "BTreeMap" THEN StrLess(ks[i], ks[j]) ELSE ks[i] # ks[j]}

RECURSIVE ValuesOfSize(_, _)
RECURSIVE ForestsOfSize(_, _)
\* The Values of exactly n nodes.
ValuesOfSize(b, n) ==
    IF n = 1 THEN Scalars \cup {Array(<<>>), Object(<<>>)}
    ELSE LET fs == ForestsOfSize(b, n - 1)
         IN {Array(f) : f \in fs}
            \cup UNION {{Object([j \in DOMAIN f |-> <<ks[j], f[j]>>]) : ks \in KeySeqs(b, Len(f))}
                        : f \in {g \in fs : Len(g) <= Cardinality(Keys)}}
\* The non-empty sequences of Values of n nodes in total.
ForestsOfSize(b, n) ==
    {<<v>> : v \in ValuesOfSize(b, n)}
    \cup UNION {{<<v>> \o f : v \in ValuesOfSize(b, m), f \in ForestsOfSize(b, n - m)}
                : m \in 1..(n - 1)}

Values(b) == UNION {ValuesOfSize(b, n) : n \in 1..MaxNodes}

(***************************************************************************)
(* The collaborators of from_str and from: serde_json::from_str and        *)
(* serde_json::to_string.  A text is either not well-formed JSON or        *)
(* denotes the Value it parses to; a typed value either cannot be          *)
(* serialized or serializes to the text of a Value.                        *)
(***************************************************************************)
None == [kind |-> "None"]

Malformed == [wellformed |-> FALSE]
Text(v) == [wellformed |-> TRUE, doc |-> v]

Unserializable == [serializable |-> FALSE]
Typed(v) == [serializable |-> TRUE, json |-> v]

Ok(x) == [ok |-> TRUE, val |-> x]
Err(e) == [ok |-> FALSE, err |-> e]

\* serde_json::from_str::<Value>(s)
ParseValue(text) == IF text.wellformed THEN Ok(text.doc) ELSE Err("Parse")

\* serde_json::to_string(value)
to_string(t) == IF t.serializable THEN Ok(Text(t.json)) ELSE Err("Serialize")

(***************************************************************************)
(* State.                                                                  *)
(***************************************************************************)
VARIABLES
    build,   \* the Map representation of this build of serde_json
    entry,   \* the public function the caller called
    typed,   \* from: its argument value
    s,       \* from_str: its argument s
    value,   \* from_json: its argument value
    pc,      \* the function in control: from, from_str, from_json, process, done
    route,   \* from_json: the PointerMap route
    target,  \* from_json: the ValueMap target
    frames,  \* the active calls of process, outermost first
    log,     \* the keys of the target.insert calls of this from_json, in order
    result,  \* what the called function returned
    pass,    \* 1: the caller's call; 2: from_json called again on its result
    original, \* a caller of escape and unescape: the string it starts from
    escaped,  \* ... what escape returned for original
    decoded,  \* ... what unescape returned for escaped
    epc       \* ... idle, escape, unescape, done

flattenVars == <<build, entry, typed, s, value, pc, route, target, frames, log, result, pass>>

escapeVars == <<original, escaped, decoded, epc>>

vars == <<flattenVars, escapeVars>>

\* A call of process: its argument value, the number of children its loop
\* has taken, and whether its target.insert is done.
Frame(v) == [node |-> v, taken |-> 0, inserted |-> FALSE]

Top == frames[Len(frames)]

Init ==
    /\ build \in Builds
    /\ entry \in {"from", "from_str", "from_json"}
    /\ \E v \in Values(build) :
        \/ entry = "from" /\ typed \in {Typed(v), Unserializable}
                          /\ s = None /\ value = None
        \/ entry = "from_str" /\ typed = None /\ s \in {Text(v), Malformed}
                              /\ value = None
        \/ entry = "from_json" /\ typed = None /\ s = None /\ value = v
    /\ pc = entry
    /\ route = <<>>
    /\ target = <<>>
    /\ frames = <<>>
    /\ log = <<>>
    /\ result = None
    /\ pass = 1
    /\ original = <<>>
    /\ escaped = <<>>
    /\ decoded = <<>>
    /\ epc = "idle"

(***************************************************************************)
(* from, from_str, from_json.                                              *)
(***************************************************************************)
\* from: from_str(&serde_json::to_string(value)?)
From ==
    /\ pc = "from"
    /\ LET text == to_string(typed)
       IN IF text.ok
          THEN /\ s' = text.val
               /\ pc' = "from_str"
               /\ UNCHANGED result
          ELSE /\ result' = text
               /\ pc' = "done"
               /\ UNCHANGED s
    /\ UNCHANGED <<build, entry, typed, value, route, target, frames, log, pass, escapeVars>>

\* A faulty variant of FromStr: a parse error is replaced by Value::Null.
FromStrOrDefault ==
    /\ pc = "from_str"
    /\ value' = (IF ParseValue(s).ok THEN ParseValue(s).val ELSE Null)
    /\ pc' = "from_json"
    /\ UNCHANGED <<build, entry, typed, s, route, target, frames, log, result, pass, escapeVars>>

\* from_str: serde_json::from_str::<Value>(s)? and the call of from_json
FromStr ==
    /\ pc = "from_str"
    /\ LET parsed == ParseValue(s)
       IN IF parsed.ok
          THEN /\ value' = parsed.val
               /\ pc' = "from_json"
               /\ UNCHANGED result
          ELSE /\ result' = parsed
               /\ pc' = "done"
               /\ UNCHANGED value
    /\ UNCHANGED <<build, entry, typed, s, route, target, frames, log, pass, escapeVars>>

\* from_json: the two locals and the call process(&value, &mut route, &mut target)
FromJson ==
    /\ pc = "from_json"
    /\ route' = <<>>
    /\ target' = <<>>
    /\ frames' = <<Frame(value)>>
    /\ log' = <<>>
    /\ pc' = "process"
    /\ UNCHANGED <<build, entry, typed, s, value, result, pass, escapeVars>>

\* from_json: Value::Object(target), which from_str wraps in Ok and from
\* passes on.
FromJsonReturn ==
    /\ pc = "process"
    /\ frames = <<>>
    /\ result' = IF entry = "from_json" THEN Object(target) ELSE Ok(Object(target))
    /\ pc' = "done"
    /\ UNCHANGED <<build, entry, typed, s, value, route, target, frames, log, pass, escapeVars>>

\* The caller gives the result of from_json to from_json again.
Reflatten ==
    /\ pc = "done"
    /\ entry = "from_json"
    /\ pass = 1
    /\ value' = result
    /\ result' = None
    /\ pass' = 2
    /\ pc' = "from_json"
    /\ UNCHANGED <<build, entry, typed, s, route, target, frames, log, escapeVars>>

(***************************************************************************)
(* process.                                                                *)
(***************************************************************************)
\* target.insert(route.concat(), v) of the match arm of the innermost call
Insert(v) ==
    /\ target' = MapInsert(build, target, Concat(route), v)
    /\ log' = Append(log, Concat(route))
    /\ frames' = [frames EXCEPT ![Len(frames)].inserted = TRUE]
    /\ UNCHANGED <<build, entry, typed, s, value, pc, route, result, pass, escapeVars>>

AtMatch(k) ==
    /\ pc = "process"
    /\ frames # <<>>
    /\ ~Top.inserted
    /\ Top.node.kind = k

ProcessNull == AtMatch("Null") /\ Insert(Inserted(Top.node))

ProcessBool == AtMatch("Bool") /\ Insert(Inserted(Top.node))

ProcessNumber == AtMatch("Number") /\ Insert(Inserted(Top.node))

ProcessString == AtMatch("String") /\ Insert(Inserted(Top.node))

ProcessArray == AtMatch("Array") /\ Insert(Inserted(Top.node))

ProcessObject == AtMatch("Object") /\ Insert(Inserted(Top.node))

\* A faulty variant of NextChild: every second child is skipped.
SkipChild(taken) == taken + 2

\* The position, from 1, of the child the loop takes next.
NextChild(taken) == taken + 1

\* The loop of the innermost call has a child left to take.
InLoop(k) ==
    /\ pc = "process"
    /\ frames # <<>>
    /\ Top.inserted
    /\ Top.node.kind = k
    /\ NextChild(Top.taken) <= Len(Children(Top.node))

\* The loop body: route.push(segment); process(val, route, target)
Descend(segment) ==
    /\ route' = Append(route, segment)
    /\ frames' = Append([frames EXCEPT ![Len(frames)].taken = NextChild(Top.taken)],
                        Frame(Children(Top.node)[NextChild(Top.taken)]))
    /\ UNCHANGED <<build, entry, typed, s, value, pc, target, log, result, pass, escapeVars>>

\* arr.iter().enumerate().for_each: idx counts from 0
ArrayEach ==
    /\ InLoop("Array")
    /\ Descend(IndexSegment(NextChild(Top.taken) - 1))

\* for (key, val) in obj
ObjectEach ==
    /\ InLoop("Object")
    /\ Descend(KeySegment(Top.node.members[NextChild(Top.taken)][1]))

\* route.pop() and the return of the innermost call
ProcessReturn ==
    /\ pc = "process"
    /\ frames # <<>>
    /\ Top.inserted
    /\ NextChild(Top.taken) > Len(Children(Top.node))
    /\ route' = RoutePop(route)
    /\ frames' = SubSeq(frames, 1, Len(frames) - 1)
    /\ UNCHANGED <<build, entry, typed, s, value, pc, target, log, result, pass, escapeVars>>

Next ==
    \/ From
    \/ FromStr
    \/ FromJson
    \/ ProcessNull
    \/ ProcessBool
    \/ ProcessNumber
    \/ ProcessString
    \/ ProcessArray
    \/ ProcessObject
    \/ ArrayEach
    \/ ObjectEach
    \/ ProcessReturn
    \/ FromJsonReturn
    \/ Reflatten

Spec == Init /\ [][Next]_vars

\* The code runs one step after the other and is never suspended.
FairSpec == Init /\ [][Next]_vars /\ WF_vars(Next)

(***************************************************************************)
(* A caller of the two helpers: escape on a key, then unescape on what     *)
(* escape returned.                                                        *)
(***************************************************************************)
\* The characters of the strings given to escape: the two escaped ones, the
\* two that follow '~' in an escaped string, and a plain one.
EscapeAlphabet == {"~", "/", "0", "1", "a"}

Strings == UNION {[1..n -> EscapeAlphabet] : n \in 0..MaxStrLen}

InitEscape ==
    /\ build = "IndexMap"
    /\ entry = "none"
    /\ typed = None
    /\ s = None
    /\ value = None
    /\ pc = "idle"
    /\ route = <<>>
    /\ target = <<>>
    /\ frames = <<>>
    /\ log = <<>>
    /\ result = None
    /\ pass = 1
    /\ original \in Strings
    /\ escaped = <<>>
    /\ decoded = <<>>
    /\ epc = "escape"

Escape ==
    /\ epc = "escape"
    /\ escaped' = escape(original)
    /\ epc' = "unescape"
    /\ UNCHANGED <<flattenVars, original, decoded>>

Unescape ==
    /\ epc = "unescape"
    /\ decoded' = unescape(escaped)
    /\ epc' = "done"
    /\ UNCHANGED <<flattenVars, original, escaped>>

NextEscape ==
    \/ Escape
    \/ Unescape

SpecEscape == InitEscape /\ [][NextEscape]_vars

(***************************************************************************)
(* The reference flat map of RFC 6901, written without the operators of    *)
(* the model of process.                                                   *)
(***************************************************************************)
\* A reference token: '~' as ~0, '/' as ~1, every other character as it is.
RECURSIVE Token(_)
Token(k) ==
    IF k = <<>> THEN <<>>
    ELSE (IF Head(k) = "~" THEN <<"~", "0">>
          ELSE IF Head(k) = "/" THEN <<"~", "1">>
          ELSE <<Head(k)>>) \o Token(Tail(k))

Placeholder(v) ==
    IF v.kind = "Array" THEN [kind |-> "Array", items |-> <<>>]
    ELSE IF v.kind = "Object" THEN [kind |-> "Object", members |-> <<>>]
    ELSE v

\* The entries of the nodes of v, v at pointer p, in pre-order.
RECURSIVE PreOrder(_, _)
RECURSIVE PreOrderItems(_, _, _)
RECURSIVE PreOrderMembers(_, _)
PreOrder(v, p) ==
    << <<p, Placeholder(v)>> >>
    \o (IF v.kind = "Array" THEN PreOrderItems(v.items, p, 0)
        ELSE IF v.kind = "Object" THEN PreOrderMembers(v.members, p)
        ELSE <<>>)
PreOrderItems(items, p, idx) ==
    IF items = <<>> THEN <<>>
    ELSE PreOrder(Head(items), p \o <<"/">> \o Decimal(idx))
         \o PreOrderItems(Tail(items), p, idx + 1)
PreOrderMembers(members, p) ==
    IF members = <<>> THEN <<>>
    ELSE PreOrder(Head(members)[2], p \o <<"/">> \o Token(Head(members)[1]))
         \o PreOrderMembers(Tail(members), p)

Range(f) == {f[j] : j \in DOMAIN f}

\* The reference flat map of v, as a set of <<pointer, value>>.
Reference(v) == Range(PreOrder(v, <<>>))

\* A call that reached from_json has returned.
Flattened == pc = "done" /\ value # None

\* The Value from_json returned.
Flat == IF entry = "from_json" THEN result ELSE result.val

(***************************************************************************)
(* C1.  For every Value v, from_json(v) is the reference flat map: one     *)
(* entry per node of v, keyed by the node's RFC 6901 pointer, a scalar or  *)
(* null mapped to itself, an array to [] and an object to {}.              *)
(***************************************************************************)
C1_FlatMapIsReference ==
    Flattened =>
        /\ Range(Flat.members) = Reference(value)
        /\ Cardinality(MapKeys(Flat.members)) = Len(Flat.members)

\* from_json has returned for an object with the key ~1 next to another
\* member, and the output has the pointer /~01.
C1_Witness ==
    /\ Flattened
    /\ pass = 1
    /\ value.kind = "Object"
    /\ Len(value.members) = 2
    /\ <<"~", "1">> \in MapKeys(value.members)
    /\ <<"/", "~", "0", "1">> \in MapKeys(Flat.members)

(***************************************************************************)
(* C2.  from_json returns an Object that has the key "", mapped to the     *)
(* input itself when the root is a scalar or null and to the empty         *)
(* placeholder [] or {} when the root is an array or an object.            *)
(***************************************************************************)
C2_RootEntry ==
    Flattened =>
        /\ Flat.kind = "Object"
        /\ \E j \in DOMAIN Flat.members :
            /\ Flat.members[j][1] = <<>>
            /\ Flat.members[j][2] =
                (IF value.kind = "Array" THEN [kind |-> "Array", items |-> <<>>]
                 ELSE IF value.kind = "Object" THEN [kind |-> "Object", members |-> <<>>]
                 ELSE value)

\* from_json has returned for an array that has elements.
C2_Witness ==
    /\ Flattened
    /\ pass = 1
    /\ value.kind = "Array"
    /\ Len(value.items) = 2
    /\ Flat.kind = "Object"

(***************************************************************************)
(* C3.  unescape(escape(k)) = k for every string k.                        *)
(***************************************************************************)
C3_RoundTrip == epc = "done" => decoded = original

\* The round trip of ~1 is done: escape gave ~01.
C3_Witness ==
    /\ epc = "done"
    /\ original = <<"~", "1">>
    /\ escaped = <<"~", "0", "1">>

(***************************************************************************)
(* C4.  A failed to_string or a failed parse returns its error, and        *)
(* from_json is never called: there is no output and no insert.  A call    *)
(* of from_str or from that succeeds returns the flat map of every node    *)
(* of the parsed Value.  No result exists before the call returns.         *)
(***************************************************************************)
C4_ErrorOrComplete ==
    /\ result # None => pc = "done"
    /\ (pc = "done" /\ entry \in {"from", "from_str"}) =>
        IF (entry = "from" /\ ~typed.serializable) \/ (s # None /\ ~s.wellformed)
        THEN /\ ~result.ok
             /\ result.err = (IF s = None THEN "Serialize" ELSE "Parse")
             /\ value = None
             /\ target = <<>>
             /\ log = <<>>
        ELSE /\ result.ok
             /\ value = s.doc
             /\ {e[1] : e \in Range(result.val.members)}
                    = {e[1] : e \in Reference(s.doc)}
             /\ Len(result.val.members) = Len(PreOrder(s.doc, <<>>))

\* from_str has returned the parse error of a malformed text.
C4_Witness ==
    /\ pc = "done"
    /\ entry = "from_str"
    /\ s = Malformed
    /\ result = Err("Parse")

(***************************************************************************)
(* C5.  Every non-empty pointer of the output is P followed by "/" and a   *)
(* segment without "/", and P is a pointer of the output too.              *)
(***************************************************************************)
LastSlash(p) == CHOOSE i \in DOMAIN p : p[i] = "/" /\ \A j \in DOMAIN p : p[j] = "/" => j <= i

ParentPresent(map) ==
    \A p \in MapKeys(map) :
        p # <<>> =>
            /\ \E i \in DOMAIN p : p[i] = "/"
            /\ SubSeq(p, 1, LastSlash(p) - 1) \in MapKeys(map)

C5_AncestorPresent == Flattened => ParentPresent(Flat.members)

\* from_json has returned for an object in an object, the inner key with a "/".
C5_Witness ==
    /\ Flattened
    /\ pass = 1
    /\ value.kind = "Object"
    /\ Len(value.members) = 1
    /\ value.members[1][2].kind = "Object"
    /\ Len(value.members[1][2].members) = 1
    /\ value.members[1][2].members[1][1] = <<"/">>

(***************************************************************************)
(* C6.  No insert targets a pointer that is present: the target has one    *)
(* entry per insert, the inserted pointers are distinct, and from_json     *)
(* returns as many entries as the input has nodes.                         *)
(***************************************************************************)
RECURSIVE Nodes(_)
RECURSIVE NodesOfAll(_)
Nodes(v) ==
    1 + (IF v.kind = "Array" THEN NodesOfAll(v.items)
         ELSE IF v.kind = "Object" THEN NodesOfAll([j \in DOMAIN v.members |-> v.members[j][2]])
         ELSE 0)
NodesOfAll(f) == IF f = <<>> THEN 0 ELSE Nodes(Head(f)) + NodesOfAll(Tail(f))

C6_NoOverwrite ==
    /\ Len(target) = Len(log)
    /\ Cardinality(Range(log)) = Len(log)
    /\ MapKeys(target) = Range(log)
    /\ Flattened => Len(Flat.members) = Nodes(value)

\* from_json has returned for an object with the keys "/" and "~1".
C6_Witness ==
    /\ Flattened
    /\ pass = 1
    /\ value.kind = "Object"
    /\ MapKeys(value.members) = {<<"/">>, <<"~", "1">>}
    /\ Len(Flat.members) = Len(value.members) + 1

(***************************************************************************)
(* C7.  The inserts are made in the pre-order of the input: a container's  *)
(* own entry before those of its descendants, array elements by index      *)
(* from 0, object members in the object's iteration order; and every       *)
(* entry of a container is the empty placeholder.                          *)
(***************************************************************************)
IsLeafOrEmpty(v) ==
    /\ v.kind = "Array" => v.items = <<>>
    /\ v.kind = "Object" => v.members = <<>>

Pointers(v) == [j \in DOMAIN PreOrder(v, <<>>) |-> PreOrder(v, <<>>)[j][1]]

C7_PreOrderInserts ==
    /\ \A j \in DOMAIN target : IsLeafOrEmpty(target[j][2])
    /\ (pc = "process" \/ Flattened) =>
        /\ Len(log) <= Len(Pointers(value))
        /\ log = SubSeq(Pointers(value), 1, Len(log))
        /\ \A j \in DOMAIN log :
            \E i \in DOMAIN target :
                target[i] = <<log[j], PreOrder(value, <<>>)[j][2]>>
    /\ Flattened => Len(log) = Len(Pointers(value))

\* process is in the second element of an array whose first element is a
\* container: the root, /0 and /1 are inserted, in this order.
C7_Witness ==
    /\ pc = "process"
    /\ pass = 1
    /\ value.kind = "Array"
    /\ Len(value.items) = 2
    /\ ~IsScalar(value.items[1])
    /\ log = << <<>>, <<"/", "0">>, <<"/", "1">> >>

(***************************************************************************)
(* C8.  from_json(from_json(v)) differs from from_json(v): the first       *)
(* output is now an object of one more node than it has entries, so every  *)
(* entry P -> x of the first output is found one level down, at the        *)
(* pointer "/" + token(P), under a new root entry "" -> {}.                *)
(***************************************************************************)
C8_NotIdempotent ==
    (Flattened /\ pass = 2) =>
        /\ result # value
        /\ Len(result.members) = Len(value.members) + 1
        /\ <<<<>>, [kind |-> "Object", members |-> <<>>]>> \in Range(result.members)
        /\ \A e \in Range(value.members) :
            <<<<"/">> \o Token(e[1]), e[2]>> \in Range(result.members)

\* The output for an array with an element has been flattened again: the
\* pointer /0 of the first output is the pointer /~10 of the second.
C8_Witness ==
    /\ Flattened
    /\ pass = 2
    /\ <<"/", "0">> \in MapKeys(value.members)
    /\ <<"/", "~", "1", "0">> \in MapKeys(result.members)

(***************************************************************************)
(* C9.  While process runs, the route is the path of the innermost call:   *)
(* one segment per enclosing call, that of the child its loop has taken.   *)
(* So a call at depth d is entered with d segments, and when a child has   *)
(* returned the route is the parent's path again.  The pop of the          *)
(* outermost call finds the route empty and leaves it empty.               *)
(***************************************************************************)
TakenSegment(f) ==
    IF f.node.kind = "Array"
    THEN <<"/">> \o Decimal(f.taken - 1)
    ELSE <<"/">> \o Token(f.node.members[f.taken][1])

TakenChild(f) ==
    IF f.node.kind = "Array" THEN f.node.items[f.taken] ELSE f.node.members[f.taken][2]

C9_RouteIsPath ==
    /\ frames = <<>> => route = <<>>
    /\ frames # <<>> =>
        /\ frames[1].node = value
        /\ Len(route) = Len(frames) - 1
        /\ \A j \in 1..(Len(frames) - 1) :
            /\ route[j] = TakenSegment(frames[j])
            /\ frames[j + 1].node = TakenChild(frames[j])

\* The outermost call of process has returned, for a container whose child
\* is a container with a child: its pop found the route empty.
C9_Witness ==
    /\ pc = "process"
    /\ frames = <<>>
    /\ route = <<>>
    /\ pass = 1
    /\ value.kind = "Array"
    /\ Len(value.items) = 1
    /\ value.items[1].kind = "Object"
    /\ Len(value.items[1].members) = 1
    /\ Len(log) = 3

(***************************************************************************)
(* C10.  Every call of from_json returns, with one insert for every node   *)
(* of its input and no pointer inserted twice.                             *)
(***************************************************************************)
C10_Terminates ==
    (pc = "from_json") ~>
        (/\ pc = "done"
         /\ result # None
         /\ Len(log) = Nodes(value)
         /\ Cardinality(Range(log)) = Len(log))

\* from_json has returned for an input of three nodes, after three inserts.
C10_Witness ==
    /\ Flattened
    /\ pass = 1
    /\ Nodes(value) = 3
    /\ Len(log) = 3
    /\ Len(target) = 3

====
